---- MODULE Spec2Model ----
(***************************************************************************)
(* Spaced-repetition scheduling engine of anki-swipe                       *)
(* (server/src/index.js): the rating normalizer, the scheduler             *)
(* updateReviewCard, the due-set selector and the seed / enroll / answer / *)
(* reset handlers that read and write the ReviewCard table.                *)
(*                                                                         *)
(* Conventions of the model                                                *)
(*  - time is counted in minutes (60 * 1000 ms is one unit), so that       *)
(*    LEARNING_STEPS_MINUTES[i] * 60 * 1000 is LEARNING_STEPS_MINUTES[i]   *)
(*    and DAY_MS is 24 * 60;                                               *)
(*  - the ease factor is held in hundredths (2.5 is 250, MIN_EASE is 130), *)
(*    every ease change of the code being a multiple of 0.01;              *)
(*  - Math.round of a product of floats that lies, in exact arithmetic,    *)
(*    halfway between two integers may go either way in binary floating    *)
(*    point: the direction is an input of the operation;                   *)
(*  - a row that may be absent is a set with at most one element.          *)
(***************************************************************************)
EXTENDS Integers, Sequences, FiniteSets, TLC

(***************************************************************************)
(* Program constants                                                       *)
(***************************************************************************)
MIN_EASE == 130
EASY_MS == 4000
GOOD_MS == 8000
DAY_MS == 24 * 60
LEARNING_STEPS_MINUTES == <<10, 60, 240>>
INITIAL_EASE == 250

\* an absent number: a rating that is not a number, a card without an order,
\* a user without a LearningProgress row
NoRating == 0 - 1
NoOrder == 0 - 1
NoProgress == 0 - 1
\* an absent deck filter / deck id / group id / card id
NoId == "none"

(***************************************************************************)
(* Bounds of the model                                                     *)
(***************************************************************************)
\* answers applied to one record
MaxSeen == 7
\* advances of the wall clock
MaxTicks == 1
\* requests started in Spec and in SpecSeq
MaxRequests == 2
\* largest row set whose every fetch order is tried
MaxPermute == 3

VARIABLES
    clock,      \* wall clock, Date.now()
    ticks,      \* number of clock advances so far
    catalog,    \* the Card table, never written by the server
    store,      \* the ReviewCard table: a set of rows
    progress,   \* the LearningProgress table: userId -> nextOrder
    procs,      \* requests in flight: handler position and locals
    nreq,       \* number of requests started (bounds the exploration)
    completed,  \* <<userId, cardId>> -> answers completed since the row's creation
    last        \* the request that completed last and its effect

vars == <<clock, ticks, catalog, store, progress, procs, nreq, completed, last>>

(***************************************************************************)
(* Arithmetic helpers                                                      *)
(***************************************************************************)
Max(a, b) == IF a >= b THEN a ELSE b
Min(a, b) == IF a <= b THEN a ELSE b

\* Math.round(n / d) for n >= 0, d > 0.  An exact half rounds up when the
\* floating-point value is not below it (up) and down otherwise.
IsHalf(n, d) == 2 * (n % d) = d

RoundDiv(n, d, up) ==
    LET fl == n \div d
        rem == n % d
    IN  IF 2 * rem > d THEN fl + 1
        ELSE IF 2 * rem < d THEN fl
        ELSE IF up THEN fl + 1 ELSE fl

(***************************************************************************)
(* Rating normalizer                                                       *)
(***************************************************************************)
\* a normalizer that looks at the correctness flag before the rating
normalizeRatingFlagFirst(rating, answerMs, isCorrect) ==
    IF ~isCorrect THEN 2
    ELSE IF rating # NoRating /\ rating > 0 THEN rating
    ELSE IF answerMs = 0 THEN 4
    ELSE IF answerMs <= EASY_MS THEN 5
    ELSE IF answerMs <= GOOD_MS THEN 4
    ELSE 3

\* a normalizer whose latency limits are exclusive
normalizeRatingBelow(rating, answerMs, isCorrect) ==
    IF rating # NoRating /\ rating > 0 THEN rating
    ELSE IF ~isCorrect THEN 2
    ELSE IF answerMs = 0 THEN 4
    ELSE IF answerMs < EASY_MS THEN 5
    ELSE IF answerMs < GOOD_MS THEN 4
    ELSE 3

\* a normalizer that takes the slowest answers for good ones
normalizeRatingSlowGood(rating, answerMs, isCorrect) ==
    IF rating # NoRating /\ rating > 0 THEN rating
    ELSE IF ~isCorrect THEN 2
    ELSE IF answerMs = 0 THEN 4
    ELSE IF answerMs <= EASY_MS THEN 5
    ELSE IF answerMs <= GOOD_MS THEN 3
    ELSE 4

\* rating is NoRating when typeof rating is not "number"
normalizeRating(rating, answerMs, isCorrect) ==
    IF rating # NoRating /\ rating > 0 THEN rating
    ELSE IF ~isCorrect THEN 2
    ELSE IF answerMs = 0 THEN 4
    ELSE IF answerMs <= EASY_MS THEN 5
    ELSE IF answerMs <= GOOD_MS THEN 4
    ELSE 3

(***************************************************************************)
(* Scheduler                                                               *)
(***************************************************************************)
\* an ease change without the quadratic term
EaseDeltaLinear(q) == 10 - (5 - q) * 10

\* 0.1 - (5 - q) * (0.08 + (5 - q) * 0.02), in hundredths
EaseDelta(q) == 10 - (5 - q) * (8 + (5 - q) * 2)

\* ease = ease + delta; if (ease < MIN_EASE) ease = MIN_EASE
AdjustEase(ease, q) ==
    IF ease + EaseDelta(q) < MIN_EASE THEN MIN_EASE ELSE ease + EaseDelta(q)

\* the lapse penalty without the floor
LapseEaseUnclamped(ease) == ease - 20

\* ease = Math.max(MIN_EASE, ease - 0.2)
LapseEase(ease) == Max(MIN_EASE, ease - 20)

\* an interval that stays as it is
GrownIntervalKept(intervalDays, ease, up) == Max(1, intervalDays)

\* the interval truncated instead of rounded
GrownIntervalFloor(intervalDays, ease, up) ==
    Max(1, (intervalDays * ease) \div 100)

\* Math.max(1, Math.round(intervalDays * ease))
GrownInterval(intervalDays, ease, up) ==
    Max(1, RoundDiv(intervalDays * ease, 100, up))

\* the delay of the step before the one asked for
StepDelayOfStepBefore(learningStep) ==
    LEARNING_STEPS_MINUTES[Max(1, learningStep)]

\* LEARNING_STEPS_MINUTES[learningStep] * 60 * 1000, the code counting the
\* steps from 0
StepDelay(learningStep) == LEARNING_STEPS_MINUTES[learningStep + 1]

\* an average that blends the first latency with the 0 it finds
NextAvgAnswerMsFromZero(avg, answerMs, up) ==
    RoundDiv(7 * avg + 3 * answerMs, 10, up)

\* record.avgAnswerMs === 0 ? answerMs : Math.round(avg * 0.7 + answerMs * 0.3)
NextAvgAnswerMs(avg, answerMs, up) ==
    IF avg = 0 THEN answerMs ELSE RoundDiv(7 * avg + 3 * answerMs, 10, up)

\* a lapse that sends the card back to the first step but keeps its interval
LapseKeepsInterval(record, t0) ==
    [ lapses |-> record.lapses + 1,
      reps |-> 0,
      learningStep |-> 0,
      intervalDays |-> record.intervalDays,
      ease |-> LapseEase(record.ease),
      dueAt |-> t0 + LEARNING_STEPS_MINUTES[1] ]

\* a lapse that keeps the count of repetitions
LapseKeepsReps(record, t0) ==
    [ lapses |-> record.lapses + 1,
      reps |-> record.reps,
      learningStep |-> 0,
      intervalDays |-> 0,
      ease |-> LapseEase(record.ease),
      dueAt |-> t0 + LEARNING_STEPS_MINUTES[1] ]

\* a lapse that is not counted
LapseUncounted(record, t0) ==
    [ lapses |-> record.lapses,
      reps |-> 0,
      learningStep |-> 0,
      intervalDays |-> 0,
      ease |-> LapseEase(record.ease),
      dueAt |-> t0 + LEARNING_STEPS_MINUTES[1] ]

\* The lapse block (it stands in both branches of the tree): the card goes
\* back to the first learning step.
Lapse(record, t0) ==
    [ lapses |-> record.lapses + 1,
      reps |-> 0,
      learningStep |-> 0,
      intervalDays |-> 0,
      ease |-> LapseEase(record.ease),
      dueAt |-> t0 + LEARNING_STEPS_MINUTES[1] ]

\* the two-day graduation given to Good as well as to Easy
GraduationDaysFromGood(q) == IF q >= 4 THEN 2 ELSE 1

\* a graduation that counts its days from 0
GraduationDaysFromZero(q) == IF q >= 5 THEN 1 ELSE 0

\* intervalDays = q >= 5 ? 2 : 1
GraduationDays(q) == IF q >= 5 THEN 2 ELSE 1

\* intervals that count the reviews made since the graduation
ReviewDaysSinceGraduation(reps, intervalDays, ease, up) ==
    IF reps = 2 THEN 1
    ELSE IF reps = 3 THEN 6
    ELSE GrownInterval(intervalDays, ease, up)

\* reps === 1 ? 1 : reps === 2 ? 6 : Math.max(1, Math.round(intervalDays * ease))
\* with reps the count already incremented
ReviewDays(reps, intervalDays, ease, up) ==
    IF reps = 1 THEN 1
    ELSE IF reps = 2 THEN 6
    ELSE GrownInterval(intervalDays, ease, up)

\* const inLearning = reps === 0 || learningStep < LEARNING_STEPS_MINUTES.length
InLearning(record) ==
    record.reps = 0 \/ record.learningStep < Len(LEARNING_STEPS_MINUTES)

\* The scheduling part of updateReviewCard: the if / else tree on inLearning
\* and q.  t0 is the value now() returns in the branch taken.
Schedule(record, q, t0, up) ==
    LET steps == Len(LEARNING_STEPS_MINUTES)
    IN  IF InLearning(record)
        THEN IF q < 3 THEN Lapse(record, t0)
             ELSE IF record.learningStep < steps - 1
                  THEN [ lapses |-> record.lapses,
                         reps |-> record.reps,
                         learningStep |-> record.learningStep + 1,
                         intervalDays |-> 0,
                         ease |-> AdjustEase(record.ease, q),
                         dueAt |-> t0 + StepDelay(record.learningStep + 1) ]
                  ELSE [ lapses |-> record.lapses,
                         reps |-> 1,
                         learningStep |-> steps,
                         intervalDays |-> GraduationDays(q),
                         ease |-> AdjustEase(record.ease, q),
                         dueAt |-> t0 + GraduationDays(q) * DAY_MS ]
        ELSE IF q < 3 THEN Lapse(record, t0)
             ELSE LET days == ReviewDays(record.reps + 1, record.intervalDays,
                                         record.ease, up)
                  IN [ lapses |-> record.lapses,
                       reps |-> record.reps + 1,
                       learningStep |-> record.learningStep,
                       intervalDays |-> days,
                       ease |-> AdjustEase(record.ease, q),
                       dueAt |-> t0 + days * DAY_MS ]

\* the counters with wrong bumped on every answer
CountersWrongAlways(record, isCorrect) ==
    [ seen |-> record.seen + 1,
      correct |-> record.correct + (IF isCorrect THEN 1 ELSE 0),
      wrong |-> record.wrong + 1 ]

\* seen, correct and wrong after an answer
Counters(record, isCorrect) ==
    [ seen |-> record.seen + 1,
      correct |-> record.correct + (IF isCorrect THEN 1 ELSE 0),
      wrong |-> record.wrong + (IF isCorrect THEN 0 ELSE 1) ]

\* updateReviewCard(record, rating, answerMs): the object of updates it
\* returns.  env holds what the call takes from its environment: its three
\* readings of the clock in order (t0: now() for dueAt, t1: new Date() for
\* lastAnsweredAt, t2: new Date() for lastReviewedAt) and the direction of
\* its two roundings (upDays, upAvg).
updateReviewCard(record, rating, answerMs, env) ==
    LET isCorrect == rating >= 3
        s == Schedule(record, rating, env.t0, env.upDays)
        c == Counters(record, isCorrect)
    IN  [ seen |-> c.seen,
          correct |-> c.correct,
          wrong |-> c.wrong,
          intervalIndex |-> s.reps,
          intervalDays |-> s.intervalDays,
          ease |-> s.ease,
          reps |-> s.reps,
          lapses |-> s.lapses,
          dueAt |-> s.dueAt,
          learningStep |-> s.learningStep,
          lastCorrect |-> isCorrect,
          lastAnsweredAt |-> env.t1,
          lastReviewedAt |-> env.t2,
          lastAnswerMs |-> answerMs,
          avgAnswerMs |-> NextAvgAnswerMs(record.avgAnswerMs, answerMs, env.upAvg) ]

(***************************************************************************)
(* Tables                                                                  *)
(***************************************************************************)
\* A row of the Card table.  groupId is `${deckId}-${groupKey}`, held as a pair.
Card(id, deckId, groupKey, order) ==
    [ id |-> id, deckId |-> deckId, groupId |-> <<deckId, groupKey>>,
      groupKey |-> groupKey, order |-> order ]

\* a lookup that makes up a card for an id the catalog does not have
FindCardOrStub(id) ==
    IF \E card \in catalog : card.id = id
    THEN { card \in catalog : card.id = id }
    ELSE { Card(id, "kanji", "N5", NoOrder) }

\* prisma.card.findUnique({ where: { id } }): at most one card
FindCard(id) == { card \in catalog : card.id = id }

\* a new row that is due only after the first learning step
FreshRowDueLater(userId, card, t) ==
    [ userId |-> userId,
      cardId |-> card.id,
      deck |-> card.deckId,
      group |-> card.groupKey,
      intervalIndex |-> 0,
      intervalDays |-> 0,
      ease |-> INITIAL_EASE,
      reps |-> 0,
      lapses |-> 0,
      learningStep |-> 0,
      dueAt |-> t + LEARNING_STEPS_MINUTES[1],
      seen |-> 0,
      correct |-> 0,
      wrong |-> 0,
      lastCorrect |-> TRUE,
      lastAnsweredAt |-> 0,
      lastReviewedAt |-> 0,
      lastAnswerMs |-> 0,
      avgAnswerMs |-> 0 ]

\* The data of every reviewCard create / createMany of the server: the row
\* of a card that was never answered.  t is the value of new Date().
FreshRow(userId, card, t) ==
    [ userId |-> userId,
      cardId |-> card.id,
      deck |-> card.deckId,
      group |-> card.groupKey,
      intervalIndex |-> 0,
      intervalDays |-> 0,
      ease |-> INITIAL_EASE,
      reps |-> 0,
      lapses |-> 0,
      learningStep |-> 0,
      dueAt |-> t,
      seen |-> 0,
      correct |-> 0,
      wrong |-> 0,
      lastCorrect |-> TRUE,
      lastAnsweredAt |-> 0,
      lastReviewedAt |-> 0,
      lastAnswerMs |-> 0,
      avgAnswerMs |-> 0 ]

\* a lookup by cardId alone
FindReviewOfAnyUser(userId, cardId) ==
    { row \in store : row.cardId = cardId }

\* prisma.reviewCard.findUnique({ where: { userId_cardId } }): at most one row
FindReview(userId, cardId) ==
    { row \in store : row.userId = userId /\ row.cardId = cardId }

HasKey(rows, userId, cardId) ==
    \E row \in rows : row.userId = userId /\ row.cardId = cardId

\* prisma.reviewCard.update({ where, data: updates }): the columns named in
\* updates are overwritten, the others (userId, cardId, deck, group) are kept
ApplyUpdates(row, updates) ==
    [ userId |-> row.userId,
      cardId |-> row.cardId,
      deck |-> row.deck,
      group |-> row.group,
      intervalIndex |-> updates.intervalIndex,
      intervalDays |-> updates.intervalDays,
      ease |-> updates.ease,
      reps |-> updates.reps,
      lapses |-> updates.lapses,
      learningStep |-> updates.learningStep,
      dueAt |-> updates.dueAt,
      seen |-> updates.seen,
      correct |-> updates.correct,
      wrong |-> updates.wrong,
      lastCorrect |-> updates.lastCorrect,
      lastAnsweredAt |-> updates.lastAnsweredAt,
      lastReviewedAt |-> updates.lastReviewedAt,
      lastAnswerMs |-> updates.lastAnswerMs,
      avgAnswerMs |-> updates.avgAnswerMs ]

\* a createMany that puts its rows in the place of the rows of the same key
CreateManyReplacing(data) ==
    { row \in store : ~HasKey(data, row.userId, row.cardId) } \cup data

\* prisma.reviewCard.createMany({ data, skipDuplicates: true }): the table
\* with the rows of data whose (userId, cardId) it does not hold yet
CreateMany(data) ==
    store \cup { row \in data : ~HasKey(store, row.userId, row.cardId) }

(***************************************************************************)
(* Requests                                                                *)
(***************************************************************************)
Idle ==
    [ pc |-> "idle", op |-> "none", userId |-> NoId, cardId |-> NoId,
      cardIds |-> {}, isCorrect |-> FALSE, answerMs |-> 0, rating |-> NoRating,
      deckId |-> NoId, groupId |-> NoId,
      review |-> {}, card |-> {}, cards |-> {}, createList |-> {},
      inserted |-> {}, nextOrder |-> NoProgress, repeat |-> FALSE,
      streak |-> 0 ]

\* The record of a completed request: what it was, what it answered and
\* what it did to the tables.  It is kept until the next request starts.
NoLast ==
    [ op |-> "none", status |-> 0, userId |-> NoId, cardId |-> NoId,
      cardIds |-> {}, deckId |-> NoId, groupId |-> NoId, limit |-> 0,
      q |-> 0, now |-> 0, before |-> {}, after |-> {},
      streak |-> 0, created |-> 0, inserted |-> {}, fetched |-> <<>>,
      response |-> <<>>, repeat |-> FALSE,
      again |-> FALSE, prev |-> {}, prevNow |-> 0, rated |-> <<>>,
      answerMs |-> 0 ]

\* The number of answers with quality >= 3 a row has received in a row, this
\* one (with quality q, on the row review) included, counted from the answer
\* that found the row at learningStep 0; 0 when there is no such run.  prior
\* is the number the answer before this one reached.
Streak(review, q, prior) ==
    IF q < 3 THEN 0
    ELSE IF review.learningStep = 0 THEN 1
    ELSE IF prior > 0 THEN prior + 1
    ELSE 0

\* The number the last request reached, when it was an answer that left the
\* row of (userId, cardId) as this request reads it.
PriorStreak(userId, cardId, review) ==
    IF /\ last.op = "answer" /\ last.status = 200
       /\ last.userId = userId /\ last.cardId = cardId
       /\ last.after = review /\ review # {}
    THEN last.streak
    ELSE 0

\* completed, reset to 0 for the keys of the rows in rows
ResetCompleted(rows) ==
    [ k \in DOMAIN completed |->
        IF HasKey(rows, k[1], k[2]) THEN 0 ELSE completed[k] ]

(***************************************************************************)
(* POST /api/review/answer                                                 *)
(***************************************************************************)
\* Lines 953-961: the check of cardId and the read of the row.
AnswerStart(p, userId, cardId, isCorrect, answerMs, rating) ==
    /\ procs[p].pc = "idle"
    /\ \A row \in FindReview(userId, cardId) : row.seen < MaxSeen
    /\ IF cardId = NoId
       THEN /\ last' = [NoLast EXCEPT !.op = "answer", !.status = 400,
                                      !.userId = userId]
            /\ procs' = procs
       ELSE /\ procs' = [procs EXCEPT ![p] =
                  [Idle EXCEPT !.pc = IF FindReview(userId, cardId) = {}
                                       THEN "answer_card" ELSE "answer_update",
                               !.op = "answer", !.userId = userId,
                               !.cardId = cardId, !.isCorrect = isCorrect,
                               !.answerMs = answerMs, !.rating = rating,
                               !.review = FindReview(userId, cardId),
                               !.streak = PriorStreak(userId, cardId,
                                              FindReview(userId, cardId))]]
            /\ last' = NoLast
    /\ UNCHANGED <<clock, ticks, catalog, store, progress, completed>>

\* Lines 963-968: no row was found; the card is looked up in the catalog.
AnswerFindCard(p) ==
    /\ procs[p].pc = "answer_card"
    /\ IF FindCard(procs[p].cardId) = {}
       THEN /\ procs' = [procs EXCEPT ![p] = Idle]
            /\ last' = [NoLast EXCEPT !.op = "answer", !.status = 404,
                                      !.userId = procs[p].userId,
                                      !.cardId = procs[p].cardId]
       ELSE /\ procs' = [procs EXCEPT ![p].pc = "answer_create",
                                      ![p].card = FindCard(procs[p].cardId)]
            /\ last' = last
    /\ UNCHANGED <<clock, ticks, catalog, store, progress, completed>>

\* a create on a table that has no unique key
AnswerCreateUnchecked(p) ==
    /\ procs[p].pc = "answer_create"
    /\ LET me == procs[p]
           row == FreshRow(me.userId, CHOOSE card \in me.card : TRUE, clock)
       IN  /\ store' = store \cup {row}
           /\ completed' = completed
           /\ procs' = [procs EXCEPT ![p].pc = "answer_update",
                                     ![p].review = {row}]
           /\ last' = last
    /\ UNCHANGED <<clock, ticks, catalog, progress>>

\* Lines 970-992: the fresh row is created.  The create is rejected when the
\* table holds a row of the same (userId, cardId); the handler then ends
\* without an answer.
AnswerCreate(p) ==
    /\ procs[p].pc = "answer_create"
    /\ LET me == procs[p]
           row == FreshRow(me.userId, CHOOSE card \in me.card : TRUE, clock)
       IN  IF HasKey(store, me.userId, me.cardId)
           THEN /\ procs' = [procs EXCEPT ![p] = Idle]
                /\ last' = [NoLast EXCEPT !.op = "answer", !.status = 500,
                                          !.userId = me.userId,
                                          !.cardId = me.cardId]
                /\ UNCHANGED <<store, completed>>
           ELSE /\ store' = store \cup {row}
                /\ completed' = [completed EXCEPT ![<<me.userId, me.cardId>>] = 0]
                /\ procs' = [procs EXCEPT ![p].pc = "answer_update",
                                          ![p].review = {row}]
                /\ last' = last
    /\ UNCHANGED <<clock, ticks, catalog, progress>>

\* Lines 995-1003: the rating is normalized, the scheduler is applied to the
\* row this request read or created, and the result is written to the row of
\* the key.  d1 and d2 say whether the clock advanced before the second and
\* the third reading of the clock; upDays and upAvg are the directions of the
\* two roundings, free only where the exact value is a half.  The update is
\* rejected when the row is gone.
AnswerUpdate(p, d1, d2, upDays, upAvg) ==
    /\ procs[p].pc = "answer_update"
    /\ ticks + d1 + d2 <= MaxTicks
    /\ \A row \in procs[p].review :
          /\ upDays \/ IsHalf(row.intervalDays * row.ease, 100)
          /\ upAvg \/ IsHalf(7 * row.avgAnswerMs + 3 * procs[p].answerMs, 10)
    /\ LET me == procs[p]
           review == CHOOSE row \in me.review : TRUE
           resolvedRating == normalizeRating(me.rating, me.answerMs, me.isCorrect)
           env == [ t0 |-> clock, t1 |-> clock + d1, t2 |-> clock + d1 + d2,
                    upDays |-> upDays, upAvg |-> upAvg ]
           updates == updateReviewCard(review, resolvedRating, me.answerMs, env)
           target == FindReview(me.userId, me.cardId)
           updated == { ApplyUpdates(row, updates) : row \in target }
       IN  /\ clock' = clock + d1 + d2
           /\ ticks' = ticks + d1 + d2
           /\ procs' = [procs EXCEPT ![p] = Idle]
           /\ IF target = {}
              THEN /\ last' = [NoLast EXCEPT !.op = "answer", !.status = 500,
                                             !.userId = me.userId,
                                             !.cardId = me.cardId]
                   /\ UNCHANGED <<store, completed>>
              ELSE /\ store' = (store \ target) \cup updated
                   /\ completed' = [completed EXCEPT
                          ![<<me.userId, me.cardId>>] = @ + 1]
                   /\ last' = [NoLast EXCEPT !.op = "answer", !.status = 200,
                                             !.userId = me.userId,
                                             !.cardId = me.cardId,
                                             !.q = resolvedRating,
                                             !.answerMs = me.answerMs,
                                             !.now = clock,
                                             !.before = me.review,
                                             !.after = updated,
                                             !.streak = Streak(review,
                                                 resolvedRating, me.streak)]
    /\ UNCHANGED <<catalog, progress>>

(***************************************************************************)
(* POST /api/review/seed, /api/review/add-group, /api/review/add-cards     *)
(***************************************************************************)
\* a createList that does not look at the existing rows
CreateListOfAll(userId, cards, existing, t) ==
    { FreshRow(userId, card, t) : card \in cards }

\* const existingSet = new Set(existing.map((item) => item.cardId));
\* const createList = cards.filter((card) => !existingSet.has(card.id)).map(...)
\* t is the value of new Date() in the map.
CreateList(userId, cards, existing, t) ==
    { FreshRow(userId, card, t) :
        card \in { c \in cards : \A row \in existing : row.cardId # c.id } }

\* cards.reduce((max, card) => typeof card.order !== "number" ? max
\*                                 : Math.max(max, card.order), -1)
MaxOrder(cards) ==
    LET orders == { card.order : card \in { c \in cards : c.order # NoOrder } }
    IN  IF orders = {} THEN 0 - 1
        ELSE CHOOSE m \in orders : \A o \in orders : o <= m

\* The request is the one that completed last, made again: same operation,
\* same user, same cards.
IsRepeat(op, userId, deckId, groupId, cardIds) ==
    /\ last.op = op /\ last.status = 200 /\ last.userId = userId
    /\ last.deckId = deckId /\ last.groupId = groupId
    /\ last.cardIds = cardIds

\* The end of a seed / enroll request: res.json({ created: createList.length })
EnrollDone(me, inserted) ==
    [NoLast EXCEPT !.op = me.op, !.status = 200, !.userId = me.userId,
                   !.deckId = me.deckId, !.groupId = me.groupId,
                   !.cardIds = me.cardIds,
                   !.created = Cardinality(me.createList),
                   !.inserted = inserted, !.repeat = me.repeat]

\* The reads of a seed / enroll request (card.findMany, reviewCard.findMany)
\* and the building of createList.  With an empty createList there is no
\* createMany: seed and add-group answer at once, add-cards goes on to the
\* learning cursor.
EnrollRead(p, me, existing) ==
    LET createList == CreateList(me.userId, me.cards, existing, clock)
        mine == [me EXCEPT !.createList = createList]
        cursor == me.op = "add-cards" /\ MaxOrder(me.cards) >= 0
    IN  /\ IF createList # {}
           THEN /\ procs' = [procs EXCEPT ![p] = [mine EXCEPT !.pc = "enroll_create"]]
                /\ last' = NoLast
           ELSE IF cursor
           THEN /\ procs' = [procs EXCEPT ![p] = [mine EXCEPT !.pc = "cards_find"]]
                /\ last' = NoLast
           ELSE /\ procs' = procs
                /\ last' = EnrollDone(mine, {})
        /\ UNCHANGED <<clock, ticks, catalog, store, progress, completed>>

\* Lines 732-762.
SeedStart(p, userId) ==
    /\ procs[p].pc = "idle"
    /\ EnrollRead(p,
          [Idle EXCEPT !.op = "seed", !.userId = userId, !.cards = catalog,
                       !.repeat = IsRepeat("seed", userId, NoId, NoId, {})],
          { row \in store : row.userId = userId })

\* an add-group that asks for deckId only
AddGroupStartDeckOnly(p, userId, deckId, groupId) ==
    /\ procs[p].pc = "idle"
    /\ IF deckId = NoId
       THEN /\ last' = [NoLast EXCEPT !.op = "add-group", !.status = 400,
                                      !.userId = userId]
            /\ UNCHANGED <<clock, ticks, catalog, store, progress, procs, completed>>
       ELSE EnrollRead(p,
               [Idle EXCEPT !.op = "add-group", !.userId = userId,
                            !.deckId = deckId, !.groupId = groupId,
                            !.cards = { card \in catalog :
                                          card.groupId = <<deckId, groupId>> },
                            !.repeat = IsRepeat("add-group", userId, deckId,
                                                groupId, {})],
               { row \in store : row.userId = userId })

\* Lines 839-879.  groupId of the body is the key of the group in its deck.
AddGroupStart(p, userId, deckId, groupId) ==
    /\ procs[p].pc = "idle"
    /\ IF deckId = NoId \/ groupId = NoId
       THEN /\ last' = [NoLast EXCEPT !.op = "add-group", !.status = 400,
                                      !.userId = userId]
            /\ UNCHANGED <<clock, ticks, catalog, store, progress, procs, completed>>
       ELSE EnrollRead(p,
               [Idle EXCEPT !.op = "add-group", !.userId = userId,
                            !.deckId = deckId, !.groupId = groupId,
                            !.cards = { card \in catalog :
                                          card.groupId = <<deckId, groupId>> },
                            !.repeat = IsRepeat("add-group", userId, deckId,
                                                groupId, {})],
               { row \in store : row.userId = userId })

\* Lines 888-927.  cardIds is the set of the ids in the array of the body,
\* empty when the array is empty or missing.
AddCardsStart(p, userId, cardIds) ==
    /\ procs[p].pc = "idle"
    /\ IF cardIds = {}
       THEN /\ last' = [NoLast EXCEPT !.op = "add-cards", !.status = 400,
                                      !.userId = userId]
            /\ UNCHANGED <<clock, ticks, catalog, store, progress, procs, completed>>
       ELSE EnrollRead(p,
               [Idle EXCEPT !.op = "add-cards", !.userId = userId,
                            !.cardIds = cardIds,
                            !.cards = { card \in catalog : card.id \in cardIds },
                            !.repeat = IsRepeat("add-cards", userId, NoId,
                                                NoId, cardIds)],
               { row \in store : row.userId = userId /\ row.cardId \in cardIds })

\* Lines 764-768, 881-885, 929-931: createMany with skipDuplicates, then the
\* answer (seed, add-group) or the learning cursor (add-cards).
EnrollCreate(p) ==
    /\ procs[p].pc = "enroll_create"
    /\ LET me == procs[p]
           inserted == CreateMany(me.createList) \ store
           cursor == me.op = "add-cards" /\ MaxOrder(me.cards) >= 0
       IN  /\ store' = CreateMany(me.createList)
           /\ completed' = ResetCompleted(inserted)
           /\ IF cursor
              THEN /\ procs' = [procs EXCEPT ![p].pc = "cards_find",
                                             ![p].inserted = inserted]
                   /\ last' = last
              ELSE /\ procs' = [procs EXCEPT ![p] = Idle]
                   /\ last' = EnrollDone(me, inserted)
    /\ UNCHANGED <<clock, ticks, catalog, progress>>

\* Lines 938-941: the learning cursor is read and the new one computed.
AddCardsFindProgress(p) ==
    /\ procs[p].pc = "cards_find"
    /\ LET me == procs[p]
           found == IF progress[me.userId] = NoProgress THEN 0
                    ELSE progress[me.userId]
       IN  procs' = [procs EXCEPT ![p].pc = "cards_upsert",
                                  ![p].nextOrder = Max(found, MaxOrder(me.cards) + 1)]
    /\ UNCHANGED <<clock, ticks, catalog, store, progress, completed, last>>

\* Lines 942-949: the learning cursor is written and the request answered.
AddCardsUpsert(p) ==
    /\ procs[p].pc = "cards_upsert"
    /\ progress' = [progress EXCEPT ![procs[p].userId] = procs[p].nextOrder]
    /\ procs' = [procs EXCEPT ![p] = Idle]
    /\ last' = EnrollDone(procs[p], procs[p].inserted)
    /\ UNCHANGED <<clock, ticks, catalog, store, completed>>

(***************************************************************************)
(* POST /api/progress/reset                                                *)
(***************************************************************************)
\* a reset whose deleteMany has no where clause
ResetStartOfAll(p, userId) ==
    /\ procs[p].pc = "idle"
    /\ store' = {}
    /\ procs' = [procs EXCEPT ![p] =
                    [Idle EXCEPT !.pc = "reset_upsert", !.op = "reset",
                                 !.userId = userId]]
    /\ last' = NoLast
    /\ UNCHANGED <<clock, ticks, catalog, progress, completed>>

\* Line 830: the rows of the user are deleted.
ResetStart(p, userId) ==
    /\ procs[p].pc = "idle"
    /\ store' = { row \in store : row.userId # userId }
    /\ procs' = [procs EXCEPT ![p] =
                    [Idle EXCEPT !.pc = "reset_upsert", !.op = "reset",
                                 !.userId = userId]]
    /\ last' = NoLast
    /\ UNCHANGED <<clock, ticks, catalog, progress, completed>>

\* Lines 831-836: the learning cursor is set to 0 and the request answered.
ResetUpsert(p) ==
    /\ procs[p].pc = "reset_upsert"
    /\ progress' = [progress EXCEPT ![procs[p].userId] = 0]
    /\ procs' = [procs EXCEPT ![p] = Idle]
    /\ last' = [NoLast EXCEPT !.op = "reset", !.status = 200,
                              !.userId = procs[p].userId]
    /\ UNCHANGED <<clock, ticks, catalog, store, completed>>

(***************************************************************************)
(* GET /api/review/due                                                     *)
(***************************************************************************)
\* The sequences that list every element of S once
RECURSIVE Orders(_)
Orders(S) ==
    IF S = {} THEN { <<>> }
    ELSE UNION { { <<x>> \o rest : rest \in Orders(S \ {x}) } : x \in S }

\* One sequence that lists every element of S once
RECURSIVE SomeOrder(_)
SomeOrder(S) ==
    IF S = {} THEN <<>>
    ELSE LET x == CHOOSE y \in S : TRUE IN <<x>> \o SomeOrder(S \ {x})

Reverse(seq) == [ i \in 1 .. Len(seq) |-> seq[Len(seq) + 1 - i] ]

\* The orders in which findMany, which has no orderBy, may return rows: any
\* order for up to MaxPermute rows; for more rows one order and its reverse.
FetchOrders(rows) ==
    IF Cardinality(rows) <= MaxPermute THEN Orders(rows)
    ELSE { SomeOrder(rows), Reverse(SomeOrder(rows)) }

\* seen of a row, 1 for a row never seen: the denominator of its score
ScoreDen(card) == IF card.seen = 0 THEN 1 ELSE card.seen

\* a score that puts the rows never seen ahead of the others
ScoreNumUnseenFirst(card) ==
    LET recentWrong == IF card.lastCorrect = FALSE THEN 1 ELSE 0
    IN  (IF card.seen = 0 THEN 40000 ELSE 12000 * card.wrong)
        + card.avgAnswerMs * ScoreDen(card)
        + 8000 * recentWrong * ScoreDen(card)

\* 4000 * ScoreDen(card) * score of lines 689-692, which is
\* wrongRate * 3 + avgMs / 4000 + recentWrong * 2
ScoreNum(card) ==
    LET recentWrong == IF card.lastCorrect = FALSE THEN 1 ELSE 0
    IN  (IF card.seen = 0 THEN 0 ELSE 12000 * card.wrong)
        + card.avgAnswerMs * ScoreDen(card)
        + 8000 * recentWrong * ScoreDen(card)

\* the comparison of an ascending sort
ScoreBelow(a, b) == ScoreNum(a) * ScoreDen(b) < ScoreNum(b) * ScoreDen(a)

\* b.score - a.score < 0: a is to stand before b
ScoreAbove(a, b) == ScoreNum(a) * ScoreDen(b) > ScoreNum(b) * ScoreDen(a)

\* x put before the elements whose score is not above its own
RECURSIVE InsertByScoreBefore(_, _)
InsertByScoreBefore(x, sorted) ==
    IF sorted = <<>> THEN <<x>>
    ELSE IF ~ScoreAbove(Head(sorted), x) THEN <<x>> \o sorted
    ELSE <<Head(sorted)>> \o InsertByScoreBefore(x, Tail(sorted))

\* x put into a sequence sorted by descending score, behind the elements
\* whose score is not below its own
RECURSIVE InsertByScore(_, _)
InsertByScore(x, sorted) ==
    IF sorted = <<>> THEN <<x>>
    ELSE IF ScoreAbove(x, Head(sorted)) THEN <<x>> \o sorted
    ELSE <<Head(sorted)>> \o InsertByScore(x, Tail(sorted))

\* scored.sort((a, b) => b.score - a.score), a stable sort
RECURSIVE SortByScore(_)
SortByScore(seq) ==
    IF seq = <<>> THEN <<>>
    ELSE InsertByScore(seq[Len(seq)], SortByScore(SubSeq(seq, 1, Len(seq) - 1)))

\* seq.slice(0, n); a negative n counts from the end
Slice(seq, n) ==
    SubSeq(seq, 1, IF n < 0 THEN Max(0, Len(seq) + n) ELSE Min(Len(seq), n))

\* Number(req.query.limit || 10): limit is the set of the limit given
QueryLimit(limit) == IF limit = {} THEN 10 ELSE CHOOSE n \in limit : TRUE

\* a where clause that forgets dueAt
IsDueWhenever(row, userId, deckId, t) ==
    /\ deckId # NoId => row.deck = deckId
    /\ row.userId = userId

\* a where clause that forgets the deck
IsDueInAnyDeck(row, userId, deckId, t) ==
    row.userId = userId /\ row.dueAt <= t

\* the where clause of line 676
IsDue(row, userId, deckId, t) ==
    /\ deckId # NoId => row.deck = deckId
    /\ row.userId = userId
    /\ row.dueAt <= t

\* a cut at the limit as it was asked for
PrioritizedToLimit(reviewCards, limit) ==
    Slice(SortByScore(reviewCards), QueryLimit(limit))

\* Lines 688-699: scoring, sort and cut
Prioritized(reviewCards, limit) ==
    Slice(SortByScore(reviewCards), Max(1, QueryLimit(limit)))

\* Lines 701-714: cardMap[review.cardId] is there
HasCard(review) == FindCard(review.cardId) # {}

\* a response that drops the rows without a card before the cut
ResponseOfCards(reviewCards, limit) ==
    Prioritized(SelectSeq(reviewCards, HasCard), limit)

\* Lines 711-727: the rows of the cut whose card is missing are dropped
Response(reviewCards, limit) ==
    SelectSeq(Prioritized(reviewCards, limit), HasCard)

\* The rows of a sequence of rows
Rows(seq) == { seq[i] : i \in 1 .. Len(seq) }

\* The request repeats the selection that completed last: same user, same
\* deck, same limit, and no request since.
IsAgain(userId, deckId, limit) ==
    /\ last.op = "due" /\ last.userId = userId
    /\ last.deckId = deckId /\ last.limit = QueryLimit(limit)

\* The record of a selection: what was asked, what was fetched and answered,
\* and, when it repeats the selection before it, what that one answered.
DueDone(userId, deckId, limit, reviewCards) ==
    [NoLast EXCEPT !.op = "due", !.status = 200,
                   !.userId = userId, !.deckId = deckId,
                   !.limit = QueryLimit(limit), !.now = clock,
                   !.fetched = reviewCards,
                   !.response =
                      IF reviewCards = <<>> THEN <<>>
                      ELSE Response(reviewCards, limit),
                   !.again = IsAgain(userId, deckId, limit),
                   !.prev = IF IsAgain(userId, deckId, limit)
                            THEN Rows(last.response) ELSE {},
                   !.prevNow = IF IsAgain(userId, deckId, limit)
                               THEN last.now ELSE 0]

\* a selection that puts off by a day the rows it answers
DueConsuming(p, userId, deckId, limit) ==
    /\ procs[p].pc = "idle"
    /\ \E reviewCards \in FetchOrders({ row \in store : IsDue(row, userId, deckId, clock) }) :
          /\ last' = DueDone(userId, deckId, limit, reviewCards)
          /\ store' = { IF row \in Rows(last'.response)
                        THEN [row EXCEPT !.dueAt = clock + DAY_MS]
                        ELSE row : row \in store }
    /\ UNCHANGED <<clock, ticks, catalog, progress, procs, completed>>

\* Lines 672-730.  The catalog being constant, the request is one step.
Due(p, userId, deckId, limit) ==
    /\ procs[p].pc = "idle"
    /\ \E reviewCards \in FetchOrders({ row \in store : IsDue(row, userId, deckId, clock) }) :
          last' = DueDone(userId, deckId, limit, reviewCards)
    /\ UNCHANGED <<clock, ticks, catalog, store, progress, procs, completed>>

(***************************************************************************)
(* The wall clock                                                          *)
(***************************************************************************)
Tick(delta) ==
    /\ ticks < MaxTicks
    /\ clock' = clock + delta
    /\ ticks' = ticks + 1
    /\ UNCHANGED <<catalog, store, progress, procs, completed, last>>

\* A request entering its handler is counted; a later step of it is not.
Started == nreq' = nreq + 1
Continued == nreq' = nreq

(***************************************************************************)
(* SpecSched: one user answers one card again and again, one request at a  *)
(* time.  The row is created by the first answer and then only touched by  *)
(* the scheduler.                                                          *)
(***************************************************************************)
\* the instant the exploration starts at, some time after the epoch
StartClock == DAY_MS

SchedCatalog == { Card("k1", "kanji", "N5", 0) }

\* the ratings of the body: the qualities 2 .. 5 and a number above them,
\* which normalizeRating hands on as it is
SchedRatings == 2 .. 6
SchedAnswerMs == { 2500 }
SchedTickDeltas == { LEARNING_STEPS_MINUTES[1] }

InitSched ==
    /\ clock = StartClock
    /\ ticks = 0
    /\ catalog = SchedCatalog
    /\ store = {}
    /\ progress = [u \in {"u1"} |-> NoProgress]
    /\ procs = [p \in {1} |-> Idle]
    /\ nreq = 0
    /\ completed = [k \in {"u1"} \X {"k1"} |-> 0]
    /\ last = NoLast

SchedAnswerStart ==
    \E rating \in SchedRatings, answerMs \in SchedAnswerMs :
        AnswerStart(1, "u1", "k1", rating >= 3, answerMs, rating) /\ Started

SchedAnswerFindCard == AnswerFindCard(1) /\ Continued

SchedAnswerCreate == AnswerCreate(1) /\ Continued

SchedAnswerUpdate ==
    \E d1 \in 0 .. 1, d2 \in 0 .. 1, upDays \in BOOLEAN, upAvg \in BOOLEAN :
        AnswerUpdate(1, d1, d2, upDays, upAvg) /\ Continued

SchedTick == \E delta \in SchedTickDeltas : Tick(delta) /\ Continued

NextSched ==
    \/ SchedAnswerStart
    \/ SchedAnswerFindCard
    \/ SchedAnswerCreate
    \/ SchedAnswerUpdate
    \/ SchedTick

SpecSched == InitSched /\ [][NextSched]_vars

(***************************************************************************)
(* The steps of the requests in flight, for the specifications below.      *)
(* There the three readings of the clock in an answer fall into the same   *)
(* minute; SpecSched is where they differ.                                 *)
(***************************************************************************)
StepAnswerFindCard == Continued /\ \E p \in DOMAIN procs : AnswerFindCard(p)

StepAnswerCreate == Continued /\ \E p \in DOMAIN procs : AnswerCreate(p)

StepAnswerUpdate ==
    /\ Continued
    /\ \E p \in DOMAIN procs, upDays \in BOOLEAN, upAvg \in BOOLEAN :
          AnswerUpdate(p, 0, 0, upDays, upAvg)

StepEnrollCreate == Continued /\ \E p \in DOMAIN procs : EnrollCreate(p)

StepAddCardsFindProgress ==
    Continued /\ \E p \in DOMAIN procs : AddCardsFindProgress(p)

StepAddCardsUpsert == Continued /\ \E p \in DOMAIN procs : AddCardsUpsert(p)

StepResetUpsert == Continued /\ \E p \in DOMAIN procs : ResetUpsert(p)

\* a request may enter its handler
Admitted == nreq < MaxRequests /\ Started

(***************************************************************************)
(* Spec: two users, a catalog of two decks, and requests of every kind     *)
(* running two at a time, their steps interleaved at every await.  No time *)
(* passes between them.                                                    *)
(***************************************************************************)
Users == { "u1", "u2" }

MainCatalog ==
    { Card("k1", "kanji", "N5", 0),
      Card("h1", "hiragana", "basic", NoOrder) }

\* the card ids a request may name: the catalog's, one that is in no catalog,
\* and none
RequestCardIds == { "k1", "h1", "zz", NoId }

\* <<rating, isCorrect, answerMs>> of an answer: no rating and wrong, no
\* rating and right within EASY_MS
AnswerInputs ==
    { <<NoRating, FALSE, 0>>, <<NoRating, TRUE, 3000>> }

\* <<deckId, groupId>> of an add-group
GroupInputs == { <<"kanji", "N5">>, <<"kanji", NoId>> }

\* cardIds of an add-cards
CardIdsInputs == { {}, {"k1", "h1"}, {"zz"} }

\* <<deckId, limit>> of a fetch of the due set
DueInputs ==
    { <<NoId, {}>>, <<"kanji", {0}>> }

Init ==
    /\ clock = StartClock
    /\ ticks = 0
    /\ catalog = MainCatalog
    /\ store = {}
    /\ progress = [u \in Users |-> NoProgress]
    /\ procs = [p \in 1 .. 2 |-> Idle]
    /\ nreq = 0
    /\ completed = [k \in Users \X { card.id : card \in MainCatalog } |-> 0]
    /\ last = NoLast

ReqAnswer ==
    /\ Admitted
    /\ \E p \in DOMAIN procs, userId \in Users, cardId \in RequestCardIds,
          in \in AnswerInputs :
          AnswerStart(p, userId, cardId, in[2], in[3], in[1])

ReqSeed ==
    /\ Admitted
    /\ \E p \in DOMAIN procs, userId \in Users : SeedStart(p, userId)

ReqAddGroup ==
    /\ Admitted
    /\ \E p \in DOMAIN procs, userId \in Users, g \in GroupInputs :
          AddGroupStart(p, userId, g[1], g[2])

ReqAddCards ==
    /\ Admitted
    /\ \E p \in DOMAIN procs, userId \in Users, cardIds \in CardIdsInputs :
          AddCardsStart(p, userId, cardIds)

ReqReset ==
    /\ Admitted
    /\ \E p \in DOMAIN procs, userId \in Users : ResetStart(p, userId)

ReqDue ==
    /\ Admitted
    /\ \E p \in DOMAIN procs, userId \in Users, d \in DueInputs :
          Due(p, userId, d[1], d[2])

Next ==
    \/ ReqAnswer
    \/ ReqSeed
    \/ ReqAddGroup
    \/ ReqAddCards
    \/ ReqReset
    \/ ReqDue
    \/ StepAnswerFindCard
    \/ StepAnswerCreate
    \/ StepAnswerUpdate
    \/ StepEnrollCreate
    \/ StepAddCardsFindProgress
    \/ StepAddCardsUpsert
    \/ StepResetUpsert

Spec == Init /\ [][Next]_vars

(***************************************************************************)
(* SpecSeq: a catalog of five kanji and three hiragana cards; the requests *)
(* of a learner, and the answers of a second user to k1, one request       *)
(* at a time.  At the start the table is empty, or holds the rows of a     *)
(* seed the learner made at time 0, or those rows after answers, or those  *)
(* and the row of a card that has left the catalog since.                  *)
(***************************************************************************)
SeqCatalog ==
    { Card("k1", "kanji", "N5", 0),
      Card("k2", "kanji", "N5", 1),
      Card("k3", "kanji", "N5", 2),
      Card("k4", "kanji", "N4", 3),
      Card("k5", "kanji", "N4", 4),
      Card("h1", "hiragana", "basic", NoOrder),
      Card("h2", "hiragana", "basic", NoOrder),
      Card("h3", "hiragana", "basic", NoOrder) }

Learner == "u1"

SeqCardIds == { "k1", "h1" }

\* no rating and wrong; no rating and right within EASY_MS; an explicit Hard
\* on a slow right answer
SeqAnswerInputs ==
    { <<NoRating, FALSE, 0>>, <<NoRating, TRUE, 3000>>, <<3, TRUE, 9000>> }

SeqGroupInputs == { <<"kanji", "N4">>, <<"hiragana", "basic">> }

SeqCardIdsInputs == { {"k1", "k2"}, {"zz"} }

SeqDueInputs ==
    { <<NoId, {}>>, <<NoId, {0}>>, <<NoId, {2}>>, <<"kanji", {10}>>,
      <<"kanji", {1}>>, <<"hiragana", {}>>, <<"kanji", {0 - 3}>> }

SeqTickDeltas == { DAY_MS }

\* the row an answer at time t leaves, all its readings of the clock being t
AnswerAt(row, in, t) ==
    ApplyUpdates(row,
        updateReviewCard(row, normalizeRating(in[1], in[3], in[2]), in[3],
            [ t0 |-> t, t1 |-> t, t2 |-> t, upDays |-> TRUE, upAvg |-> TRUE ]))

\* the rows of a seed the learner made at time 0
Seeded == CreateList(Learner, SeqCatalog, {}, 0)

\* Seeded after a wrong answer on k1 and a quick right answer on h1
Practised ==
    { IF row.cardId = "k1" THEN AnswerAt(row, <<NoRating, FALSE, 0>>, 0)
      ELSE IF row.cardId = "h1" THEN AnswerAt(row, <<NoRating, TRUE, 3000>>, 0)
      ELSE row : row \in Seeded }

\* the rows of a seed at time 0 after a wrong answer on k1 at StartClock
Recent ==
    { IF row.cardId = "k1"
      THEN AnswerAt(row, <<NoRating, FALSE, 0>>, StartClock)
      ELSE row : row \in Seeded }

\* a card that was in the catalog when the learner seeded and is there no more
GoneCard == Card("x1", "kanji", "N5", NoOrder)

\* Practised with the row of the card that is gone, answered wrong like k1
Orphaned ==
    Practised \cup
        { AnswerAt(FreshRow(Learner, GoneCard, 0), <<NoRating, FALSE, 0>>, 0) }

\* the tables at the start
SeqStores == { {}, Seeded, Practised, Recent, Orphaned }

InitSeq ==
    /\ clock = StartClock
    /\ ticks = 0
    /\ catalog = SeqCatalog
    /\ store \in SeqStores
    /\ progress = [u \in Users |-> NoProgress]
    /\ procs = [p \in {1} |-> Idle]
    /\ nreq = 0
    /\ completed = [k \in Users \X { card.id : card \in SeqCatalog } |->
                       IF \E row \in store : row.userId = k[1] /\ row.cardId = k[2] /\ row.seen = 1
                       THEN 1 ELSE 0]
    /\ last = NoLast

\* the learner answers any of the cards in any of the ways, the second user
\* answers k1 right
SeqAnswer ==
    /\ Admitted
    /\ \/ \E cardId \in SeqCardIds, in \in SeqAnswerInputs :
             AnswerStart(1, Learner, cardId, in[2], in[3], in[1])
       \/ \E userId \in Users \ {Learner} :
             AnswerStart(1, userId, "k1", TRUE, 3000, NoRating)

SeqSeed == Admitted /\ SeedStart(1, Learner)

SeqAddGroup ==
    /\ Admitted
    /\ \E g \in SeqGroupInputs : AddGroupStart(1, Learner, g[1], g[2])

SeqAddCards ==
    /\ Admitted
    /\ \E cardIds \in SeqCardIdsInputs : AddCardsStart(1, Learner, cardIds)

SeqReset == Admitted /\ ResetStart(1, Learner)

SeqDue ==
    /\ Admitted
    /\ \E d \in SeqDueInputs : Due(1, Learner, d[1], d[2])

SeqTick == \E delta \in SeqTickDeltas : Tick(delta) /\ Continued

NextSeq ==
    \/ SeqAnswer
    \/ SeqSeed
    \/ SeqAddGroup
    \/ SeqAddCards
    \/ SeqReset
    \/ SeqDue
    \/ StepAnswerFindCard
    \/ StepAnswerCreate
    \/ StepAnswerUpdate
    \/ StepEnrollCreate
    \/ StepAddCardsFindProgress
    \/ StepAddCardsUpsert
    \/ StepResetUpsert
    \/ SeqTick

SpecSeq == InitSeq /\ [][NextSeq]_vars

(***************************************************************************)
(* SpecRating: the rating normalizer applied to the fields of one answer   *)
(* after another; last.rated holds the latest answer and the one before.   *)
(***************************************************************************)
\* rating of the body: none, or a number from 0 to 6
RatingInputs == { NoRating } \cup (0 .. 6)

\* Number(answerMs || 0): none or zero, and the values around EASY_MS and
\* GOOD_MS
LatencyInputs == { 0, 1, EASY_MS - 1, EASY_MS, EASY_MS + 1,
                   GOOD_MS - 1, GOOD_MS, GOOD_MS + 1 }

InitRating ==
    /\ clock = StartClock
    /\ ticks = 0
    /\ catalog = SchedCatalog
    /\ store = {}
    /\ progress = [u \in {"u1"} |-> NoProgress]
    /\ procs = [p \in {1} |-> Idle]
    /\ nreq = 0
    /\ completed = [k \in {"u1"} \X { card.id : card \in SchedCatalog } |-> 0]
    /\ last = NoLast

\* Line 995: resolvedRating of an answer with these fields
Rated(rating, isCorrect, answerMs) ==
    [ rating |-> rating, isCorrect |-> isCorrect, answerMs |-> answerMs,
      q |-> normalizeRating(rating, answerMs, isCorrect) ]

RateAnswer ==
    /\ \E rating \in RatingInputs, isCorrect \in BOOLEAN,
          answerMs \in LatencyInputs :
          last' = [NoLast EXCEPT !.op = "rate",
                                 !.rated = <<Rated(rating, isCorrect, answerMs)>>
                                           \o SubSeq(last.rated, 1, Min(1, Len(last.rated)))]
    /\ UNCHANGED <<clock, ticks, catalog, store, progress, procs, nreq,
                   completed>>

NextRating == RateAnswer

SpecRating == InitRating /\ [][NextRating]_vars

(***************************************************************************)
(* SpecLatency: one user answers one card right, without a rating, with    *)
(* latencies that leave the moving average between two integers.           *)
(***************************************************************************)
\* Number(answerMs || 0): none, two small values, a good and a slow one
LatencyMs == { 0, 5, 2500, 9001 }

LatAnswerStart ==
    \E answerMs \in LatencyMs :
        AnswerStart(1, "u1", "k1", TRUE, answerMs, NoRating) /\ Started

NextLatency ==
    \/ LatAnswerStart
    \/ StepAnswerFindCard
    \/ StepAnswerCreate
    \/ StepAnswerUpdate

SpecLatency == InitSched /\ [][NextLatency]_vars

(***************************************************************************)
(* SpecCursor: one user, a catalog of two ordered kanji cards and one      *)
(* hiragana card without an order, and requests of every kind running two  *)
(* at a time, their steps interleaved at every await.                      *)
(***************************************************************************)
CursorCatalog ==
    { Card("k1", "kanji", "N5", 0),
      Card("k2", "kanji", "N5", 1),
      Card("h1", "hiragana", "basic", NoOrder) }

\* cardIds of an add-cards: the first card, the second, the one without order
CursorCardIdsInputs == { {"k1"}, {"k2"}, {"h1"} }

InitCursor ==
    /\ clock = StartClock
    /\ ticks = 0
    /\ catalog = CursorCatalog
    /\ store = {}
    /\ progress = [u \in {Learner} |-> NoProgress]
    /\ procs = [p \in 1 .. 2 |-> Idle]
    /\ nreq = 0
    /\ completed = [k \in {Learner} \X { card.id : card \in CursorCatalog } |-> 0]
    /\ last = NoLast

CursorAnswer ==
    /\ Admitted
    /\ \E p \in DOMAIN procs :
          AnswerStart(p, Learner, "k1", TRUE, 3000, NoRating)

CursorSeed == Admitted /\ \E p \in DOMAIN procs : SeedStart(p, Learner)

CursorAddGroup ==
    /\ Admitted
    /\ \E p \in DOMAIN procs : AddGroupStart(p, Learner, "kanji", "N5")

CursorAddCards ==
    /\ Admitted
    /\ \E p \in DOMAIN procs, cardIds \in CursorCardIdsInputs :
          AddCardsStart(p, Learner, cardIds)

CursorReset == Admitted /\ \E p \in DOMAIN procs : ResetStart(p, Learner)

CursorDue == Admitted /\ \E p \in DOMAIN procs : Due(p, Learner, NoId, {})

NextCursor ==
    \/ CursorAnswer
    \/ CursorSeed
    \/ CursorAddGroup
    \/ CursorAddCards
    \/ CursorReset
    \/ CursorDue
    \/ StepAnswerFindCard
    \/ StepAnswerCreate
    \/ StepAnswerUpdate
    \/ StepEnrollCreate
    \/ StepAddCardsFindProgress
    \/ StepAddCardsUpsert
    \/ StepResetUpsert

SpecCursor == InitCursor /\ [][NextCursor]_vars

(***************************************************************************)
(* Properties of the scheduler (SpecSched)                                 *)
(***************************************************************************)
\* the last request was an answer that updated its row
Answered == last.op = "answer" /\ last.status = 200

Abs(n) == IF n < 0 THEN 0 - n ELSE n

\* the integers nearest to n / d (two of them when n / d is a half)
NearestInts(n, d) ==
    { r \in { n \div d, (n \div d) + 1 } : 2 * Abs(r * d - n) <= d }

\* C1  Ease floor: from a freshly created row (ease 2.5), after any sequence
\* of answers of any qualities, the stored ease factor is never below 1.3.
EaseFloor == \A row \in store : row.ease >= 130

\* An answer of quality < 3 found the ease less than 0.2 above the floor and
\* left it on the floor.
EaseFloorClamped ==
    /\ Answered
    /\ last.q < 3
    /\ \E b \in last.before, a \in last.after :
          b.ease - 20 < 130 /\ a.ease = 130

\* C2  Counter invariant: seen = correct + wrong in every row; an update
\* adds 1 to seen and 1 to exactly one of correct (quality >= 3) and wrong
\* (quality < 3), and sets lastCorrect to (quality >= 3).
CounterInvariant ==
    /\ \A row \in store : row.seen = row.correct + row.wrong
    /\ Answered =>
          \A b \in last.before, a \in last.after :
             /\ a.seen = b.seen + 1
             /\ last.q >= 3 => a.correct = b.correct + 1 /\ a.wrong = b.wrong
             /\ last.q < 3 => a.wrong = b.wrong + 1 /\ a.correct = b.correct
             /\ a.lastCorrect = (last.q >= 3)

\* A wrong answer on a row that already counts a correct one.
CountersBothGrown ==
    /\ Answered
    /\ last.q < 3
    /\ \E a \in last.after : a.correct >= 1 /\ a.wrong >= 1 /\ ~a.lastCorrect

\* C3  Lapse resets learning: in either phase an update with quality < 3
\* gives learningStep 0, intervalDays 0, reps 0, one more lapse, the ease
\* lowered by 0.2 but not below 1.3, and dueAt 10 minutes after now.
LapseResetsLearning ==
    (Answered /\ last.q < 3) =>
        \A b \in last.before, a \in last.after :
           /\ a.learningStep = 0
           /\ a.intervalDays = 0
           /\ a.reps = 0
           /\ a.lapses = b.lapses + 1
           /\ a.ease = Max(130, b.ease - 20)
           /\ a.dueAt = last.now + 10

\* A graduated row (day interval, reps counted) lapsed.
LapseFromGraduated ==
    /\ Answered
    /\ last.q < 3
    /\ \E b \in last.before, a \in last.after :
          /\ b.learningStep = 3 /\ b.intervalDays >= 1 /\ b.reps >= 1
          /\ a.learningStep = 0

\* C4  Learning to graduation: a row at learningStep 0 that receives three
\* answers of quality >= 3 in a row is graduated by the third (learningStep
\* 3, reps 1) and not by the first or the second; the graduation interval is
\* 2 days for quality 5 and 1 day otherwise, and dueAt is now plus it.
GraduationAfterThree ==
    Answered =>
        \A a \in last.after :
           /\ last.streak \in {1, 2} => a.learningStep < 3 /\ a.reps = 0
           /\ last.streak = 3 =>
                 /\ a.learningStep = 3
                 /\ a.reps = 1
                 /\ a.intervalDays = (IF last.q = 5 THEN 2 ELSE 1)
                 /\ a.dueAt = last.now + a.intervalDays * 24 * 60

\* A row that had lapsed graduated again on an answer of quality 5.
GraduatedAfterLapse ==
    /\ Answered
    /\ last.streak = 3
    /\ last.q = 5
    /\ \E a \in last.after : a.lapses >= 1 /\ a.intervalDays = 2

\* C5  Graduated interval growth: quality >= 3 on a graduated row adds 1 to
\* reps and sets intervalDays to 1 for new reps 1, 6 for new reps 2 and
\* max(1, round(old intervalDays * old ease)) for new reps >= 3, the ease
\* being the one held before this answer; dueAt is now plus that many days;
\* reps 2, intervalDays 6, ease 2.5 and quality 4 give reps 3, intervalDays 15.
GraduatedIntervalGrowth ==
    (Answered /\ last.q >= 3) =>
        \A b \in last.before, a \in last.after :
           b.learningStep = 3 =>
              /\ a.reps = b.reps + 1
              /\ a.reps = 1 => a.intervalDays = 1
              /\ a.reps = 2 => a.intervalDays = 6
              /\ a.reps >= 3 =>
                    a.intervalDays \in
                       { Max(1, r) : r \in NearestInts(b.intervalDays * b.ease, 100) }
              /\ a.dueAt = last.now + a.intervalDays * 24 * 60
              /\ (b.reps = 2 /\ b.intervalDays = 6 /\ b.ease = 250 /\ last.q = 4)
                    => a.reps = 3 /\ a.intervalDays = 15

\* The third review of a graduated row whose ease had moved: 6 days at ease
\* 2.6 became 16 days.
GrowthByEase ==
    /\ Answered
    /\ last.q >= 3
    /\ \E b \in last.before, a \in last.after :
          /\ b.learningStep = 3 /\ b.reps = 2 /\ b.intervalDays = 6
          /\ b.ease = 260
          /\ a.reps = 3 /\ a.intervalDays = 16


(***************************************************************************)
(* Properties of concurrent requests (Spec)                                *)
(***************************************************************************)
EnrollOps == { "seed", "add-group", "add-cards" }

\* C6 No lost update: whatever answer requests run concurrently on a row,
\* seen of the row has grown by exactly the number of requests completed on
\* it since it was created (as it would with one transition per request in
\* some serial order).
NoLostUpdate ==
    \A row \in store : row.seen = completed[<<row.userId, row.cardId>>]

\* C8 Re-seeding never overwrites: a step of a seed / enroll call (seed,
\* add-group, add-cards), taken in any reachable state and whatever the
\* other requests in flight, leaves every row that was in the table in the
\* table with all its fields as they were, answered rows included.
NeverOverwrites ==
    [][ \A p \in DOMAIN procs :
          (procs[p].op \in EnrollOps /\ procs'[p] # procs[p])
             => store \subseteq store' ]_vars

\* an enroll call has inserted rows beside a row of its user that a request
\* running at the same time had created and answered after the call's read
NeverOverwritesBesideAnswered ==
    /\ last.op \in EnrollOps /\ last.status = 200
    /\ last.inserted # {}
    /\ last.created > Cardinality(last.inserted)
    /\ \E row \in store : row.userId = last.userId /\ row.seen > 0

(***************************************************************************)
(* Properties of requests made one at a time (SpecSeq)                     *)
(***************************************************************************)
\* C7 Idempotent seeding: a seed / enroll call that repeats the call before
\* it (same operation, same user, same cards) reports created = 0 and puts
\* no row into the table.
IdempotentSeeding ==
    (last.op \in EnrollOps /\ last.status = 200 /\ last.repeat) =>
        /\ last.created = 0
        /\ last.inserted = {}

\* seed has been called twice in a row by a user who had no row: the first
\* call made the eight rows, at StartClock or later, that the second found
SeededTwice ==
    /\ last.op = "seed" /\ last.status = 200 /\ last.repeat
    /\ Cardinality({ row \in store : /\ row.userId = last.userId
                                     /\ row.seen = 0
                                     /\ row.dueAt >= StartClock }) = 8

\* the rows of the table that match the request of the due set in last
Matching ==
    { row \in store :
        /\ row.userId = last.userId
        /\ row.dueAt <= last.now
        /\ last.deckId # NoId => row.deck = last.deckId }

\* the rows of the user of last in deck that are due at last.now
DueInDeck(deck) ==
    { row \in store :
        row.userId = last.userId /\ row.dueAt <= last.now /\ row.deck = deck }

Returned == { last.response[i] : i \in 1 .. Len(last.response) }

ScoreTimesSeen(row) ==
    IF row.seen = 0
    THEN row.avgAnswerMs + (IF row.lastCorrect THEN 0 ELSE 8000)
    ELSE 12000 * row.wrong + row.seen * row.avgAnswerMs
         + (IF row.lastCorrect THEN 0 ELSE 8000 * row.seen)

\* the score of a is strictly higher than the score of b
HigherScore(a, b) ==
    LET seenOf(row) == IF row.seen = 0 THEN 1 ELSE row.seen
    IN  ScoreTimesSeen(a) * seenOf(b) > ScoreTimesSeen(b) * seenOf(a)

\* C10 Due-set limit and priority: when every matching due row has its card,
\* the response has exactly min(D, max(1, limit)) rows, D the number of
\* matching due rows; no row of it has a strictly higher score than a row
\* before it; and no matching due row left out has a strictly higher score
\* than a returned one.
DueSetLimit ==
    (last.op = "due" /\ \A row \in Matching : HasCard(row)) =>
        /\ Len(last.response) = Min(Cardinality(Matching), Max(1, last.limit))
        /\ \A i, j \in 1 .. Len(last.response) :
              i < j => ~HigherScore(last.response[j], last.response[i])
        /\ \A row \in Matching \ Returned :
              \A back \in Returned : ~HigherScore(row, back)

\* a limit below 1 has cut the due set to its one row of highest score
DueSetCutToOne ==
    /\ last.op = "due" /\ last.limit < 1
    /\ Len(last.response) = 1
    /\ Cardinality(Matching) > 2
    /\ \E row \in Matching \ Returned : HigherScore(last.response[1], row)

\* a selection is made
DueStep == nreq' # nreq /\ last'.op = "due"

\* C11 (as stated) Selection is read-only: a selection changes no row and no
\* learning cursor, and a row returned by one selection is returned again by
\* the same selection made at a later instant with no request in between.
SelectionReturnsAgain ==
    [][ DueStep =>
          /\ store' = store
          /\ progress' = progress
          /\ last'.again => last'.prev \subseteq Rows(last'.response) ]_vars

\* C11 (amended) Selection is read-only: a selection changes no row and no
\* learning cursor; a row returned by one selection still matches the same
\* selection made at a later instant with no request in between, and it is
\* returned again when the matching due rows are no more than max(1, limit).
SelectionReadOnly ==
    [][ DueStep =>
          /\ store' = store
          /\ progress' = progress
          /\ last'.again =>
                /\ last'.prev \subseteq Matching'
                /\ Cardinality(Matching') <= Max(1, last'.limit)
                      => last'.prev \subseteq Rows(last'.response) ]_vars

\* a selection has been repeated at a later instant, with the limit above
\* the number of matching rows, and has returned the rows of the first again
SelectedAgainLater ==
    /\ last.op = "due" /\ last.again
    /\ last.now > last.prevNow
    /\ last.prev # {}
    /\ Cardinality(Matching) <= Max(1, last.limit)
    /\ last.prev \subseteq Rows(last.response)
    /\ Cardinality(Matching) > Cardinality(last.prev)

(***************************************************************************)
(* Properties of the rating normalizer (SpecRating)                        *)
(***************************************************************************)
\* C12 Quality range: whatever the rating, the correctness flag and the
\* latency of an answer, the quality handed to the scheduler is 2, 3, 4 or 5.
QualityRange ==
    \A i \in 1 .. Len(last.rated) : last.rated[i].q \in 2 .. 5

\* C13 Explicit rating wins: an answer with a rating r in 2 .. 5 has quality
\* r, whatever its correctness flag and its latency.
ExplicitRatingWins ==
    \A i \in 1 .. Len(last.rated) :
       last.rated[i].rating \in 2 .. 5 => last.rated[i].q = last.rated[i].rating

\* an answer flagged wrong was rated Easy, one flagged right was rated Again
ExplicitAgainstFlag ==
    /\ Len(last.rated) = 2
    /\ ~last.rated[1].isCorrect /\ last.rated[1].rating = 5 /\ last.rated[1].q = 5
    /\ last.rated[2].isCorrect /\ last.rated[2].rating = 2 /\ last.rated[2].q = 2

\* C14 Fallback rating derivation: an answer without a rating has quality 2
\* when it is wrong; otherwise 4 at latency 0, 5 up to 4000 ms, 4 up to
\* 8000 ms, 3 above.
FallbackDerivation ==
    \A i \in 1 .. Len(last.rated) :
       LET a == last.rated[i]
       IN  a.rating = NoRating =>
              a.q = IF ~a.isCorrect THEN 2
                    ELSE IF a.answerMs = 0 THEN 4
                    ELSE IF a.answerMs <= 4000 THEN 5
                    ELSE IF a.answerMs <= 8000 THEN 4
                    ELSE 3

\* two right answers without a rating, at exactly 4000 ms and at exactly
\* 8000 ms
FallbackAtLimits ==
    /\ Len(last.rated) = 2
    /\ \A i \in 1 .. 2 : last.rated[i].rating = NoRating /\ last.rated[i].isCorrect
    /\ last.rated[1].answerMs = 4000 /\ last.rated[1].q = 5
    /\ last.rated[2].answerMs = 8000 /\ last.rated[2].q = 4

\* both answers are right and without a rating
BothDerived ==
    /\ Len(last.rated) = 2
    /\ \A i \in 1 .. 2 : last.rated[i].rating = NoRating /\ last.rated[i].isCorrect

\* C15 (as stated) Monotonic speed-to-confidence: of two right answers
\* without a rating, the one with the lower latency (0 included) has the
\* quality that is not lower.
SpeedMonotonic ==
    BothDerived =>
        (last.rated[1].answerMs <= last.rated[2].answerMs
            => last.rated[1].q >= last.rated[2].q)

\* C15 (amended) Monotonic speed-to-confidence: of two right answers without
\* a rating and with latencies above 0, the one with the lower latency has
\* the quality that is not lower; latency 0 (not measured) has quality 4.
SpeedMonotonicMeasured ==
    BothDerived =>
        /\ \A i \in 1 .. 2 : last.rated[i].answerMs = 0 => last.rated[i].q = 4
        /\ (0 < last.rated[1].answerMs
            /\ last.rated[1].answerMs <= last.rated[2].answerMs)
              => last.rated[1].q >= last.rated[2].q

\* a quick answer of quality 5 and a slow one of quality 3
QuickAboveSlow ==
    /\ BothDerived
    /\ 0 < last.rated[1].answerMs
    /\ last.rated[1].answerMs < last.rated[2].answerMs
    /\ last.rated[1].q = 5 /\ last.rated[2].q = 3

(***************************************************************************)
(* Properties of the handlers: errors and frame (Spec, SpecSeq)            *)
(***************************************************************************)
\* process p takes a step of the request it is in
StepOf(p) == procs[p].pc # "idle" /\ procs'[p] # procs[p]

ValidRequest(r) ==
    /\ r.op = "answer" => r.cardId # NoId
    /\ r.op = "add-cards" => r.cardIds # {}
    /\ r.op = "add-group" => r.deckId # NoId /\ r.groupId # NoId

\* C17 InvalidInput: an answer without cardId, an add-cards without cardIds
\* and an add-group without deckId or groupId never get into their handler
\* (no request in flight and no request that ended otherwise than with 400
\* is one of them), and the step that answers 400 changes no row, no cursor
\* and starts nothing.
InvalidInputRejected ==
    [][ /\ \A p \in DOMAIN procs : ValidRequest(procs'[p])
        /\ last'.status # 400 => ValidRequest(last')
        /\ (nreq' # nreq /\ last'.status = 400)
              => /\ store' = store
                 /\ progress' = progress
                 /\ procs' = procs ]_vars

\* an add-group without groupId was answered 400 while another request was
\* in flight and the table held rows
RejectedBesideRows ==
    /\ last.op = "add-group" /\ last.status = 400
    /\ store # {}
    /\ \E p \in DOMAIN procs : procs[p].pc # "idle"

\* C18 Reset progress: a step of a reset of user u leaves the rows and the
\* cursors of every other user as they were, and when the reset has ended u
\* has no row and u's cursor is 0.
ResetProgress ==
    [][ \A p \in DOMAIN procs :
          ( /\ procs'[p] # procs[p]
            /\ procs[p].op = "reset" \/ procs'[p].op = "reset" )
          => LET u == IF procs[p].op = "reset" THEN procs[p].userId
                      ELSE procs'[p].userId
             IN  /\ { row \in store' : row.userId # u }
                       = { row \in store : row.userId # u }
                 /\ \A v \in DOMAIN progress :
                       v # u => progress'[v] = progress[v]
                 /\ procs'[p].pc = "idle"
                       => /\ \A row \in store' : row.userId # u
                          /\ progress'[u] = 0
                          /\ last'.op = "reset" /\ last'.status = 200 ]_vars

\* a reset has ended for a user who had answered k1, beside an answered row
\* of another user
ResetAfterAnswers ==
    /\ last.op = "reset" /\ last.status = 200
    /\ completed[<<last.userId, "k1">>] >= 1
    /\ progress[last.userId] = 0
    /\ \E row \in store : row.userId # last.userId /\ row.seen >= 1

\* C19 Answer independence: a step of an answer of user u for card c leaves
\* every row other than that of (u, c) and every learning cursor as it was,
\* whatever other requests are in flight.
AnswerIndependence ==
    [][ \A p \in DOMAIN procs :
          (StepOf(p) /\ procs[p].op = "answer")
          => LET others(rows) ==
                    { row \in rows : ~( /\ row.userId = procs[p].userId
                                        /\ row.cardId = procs[p].cardId ) }
             IN  /\ others(store') = others(store)
                 /\ progress' = progress ]_vars

\* an answer has updated its row beside the row of the same card that
\* another user has answered
AnsweredBesideOthers ==
    /\ last.op = "answer" /\ last.status = 200
    /\ \E row \in store : /\ row.userId # last.userId
                          /\ row.cardId = last.cardId
                          /\ row.seen = 1

\* C20 Seed count: the count a seed / enroll call returns is the number of
\* rows the call has inserted, whatever other requests are in flight.
SeedCount ==
    (last.op \in EnrollOps /\ last.status = 200)
        => last.created = Cardinality(last.inserted)

(***************************************************************************)
(* Properties of the scheduler, continued (SpecLatency, SpecSched)         *)
(***************************************************************************)
\* C21 EWMA latency: an update of a row whose avgAnswerMs is 0 sets
\* avgAnswerMs to the latency submitted; of any other row, to
\* round(0.7 * old avgAnswerMs + 0.3 * latency); lastAnswerMs is always set
\* to the latency submitted.
EwmaLatency ==
    Answered =>
        \A b \in last.before, a \in last.after :
           /\ a.lastAnswerMs = last.answerMs
           /\ b.avgAnswerMs = 0 => a.avgAnswerMs = last.answerMs
           /\ b.avgAnswerMs # 0 =>
                 a.avgAnswerMs \in
                    NearestInts(7 * b.avgAnswerMs + 3 * last.answerMs, 10)

\* a row whose first latencies were 0 and whose average was then seeded has
\* taken a blend that is no integer before rounding
EwmaBlended ==
    /\ Answered
    /\ \E b \in last.before, a \in last.after :
          /\ b.seen >= 2 /\ b.avgAnswerMs # 0
          /\ b.avgAnswerMs # b.lastAnswerMs
          /\ (7 * b.avgAnswerMs + 3 * last.answerMs) % 10 \notin {0, 5}
          /\ a.avgAnswerMs # last.answerMs

\* C22 Ease adjustment on success: an update with quality q >= 3, in the
\* learning and in the graduated phase, changes the ease by
\* 0.1 - (5 - q) * (0.08 + (5 - q) * 0.02) and then raises it to 1.3 if it is
\* below: quality 5 adds 0.10, quality 4 leaves it, quality 3 takes 0.14; the
\* flat penalty of 0.2 is applied only when quality < 3.
EaseOnSuccess ==
    Answered =>
        \A b \in last.before, a \in last.after :
           /\ last.q >= 3 =>
                 /\ a.ease = Max(130, b.ease + 10
                                       - (5 - last.q) * (8 + (5 - last.q) * 2))
                 /\ last.q = 5 => a.ease = b.ease + 10
                 /\ last.q = 4 => a.ease = b.ease
                 /\ last.q = 3 => a.ease = Max(130, b.ease - 14)
           /\ a.ease = b.ease - 20 => last.q < 3

\* a graduated row that had lapsed before was answered with quality 3 and
\* lost 0.14 of its ease
EaseHardOnGraduated ==
    /\ Answered
    /\ last.q = 3
    /\ \E b \in last.before, a \in last.after :
          /\ b.learningStep = 3 /\ b.reps >= 1 /\ b.lapses >= 1
          /\ a.ease = b.ease - 14

\* C23 Phase / interval invariants: in every state reachable from a freshly
\* created row, 0 <= learningStep <= 3, intervalDays is an integer >= 0, and
\* intervalDays is 0 exactly when learningStep < 3; a graduated row has
\* intervalDays >= 1.
PhaseInterval ==
    \A row \in store :
       /\ row.learningStep \in 0 .. 3
       /\ row.intervalDays \in Nat
       /\ row.intervalDays = 0 <=> row.learningStep < 3
       /\ row.learningStep = 3 => row.intervalDays >= 1

\* a row with an interval of six days or more lapsed and is back at step 0
\* with no interval
IntervalLostByLapse ==
    /\ Answered
    /\ \E b \in last.before, a \in last.after :
          /\ b.learningStep = 3 /\ b.intervalDays >= 6
          /\ a.learningStep = 0 /\ a.intervalDays = 0
          /\ a \in store

\* C24 Lapse counter: an update never lowers lapses; it adds 1 to it when
\* the quality is below 3 and leaves it otherwise, so that in every state
\* reachable from a freshly created row lapses is the number of updates with
\* quality < 3 the row has received, and lapses = wrong.
LapseCounter ==
    /\ \A row \in store : row.lapses = row.wrong
    /\ Answered =>
          \A b \in last.before, a \in last.after :
             /\ a.lapses >= b.lapses
             /\ a.lapses = b.lapses + (IF last.q < 3 THEN 1 ELSE 0)

\* a row that had lapsed once and graduated since has lapsed a second time
LapsedTwice ==
    /\ Answered
    /\ last.q < 3
    /\ \E b \in last.before, a \in last.after :
          /\ b.learningStep = 3 /\ b.lapses = 1 /\ b.correct >= 3
          /\ a.lapses = 2 /\ a.wrong = 2

\* C25 Learning-step advance: an update with quality >= 3 of a row at
\* learningStep 0 or 1 sets learningStep to the old one plus 1, keeps
\* intervalDays 0 and reps 0, and sets dueAt to now plus the minutes of the
\* new step: 60 from step 0, 240 from step 1.
LearningStepAdvance ==
    (Answered /\ last.q >= 3) =>
        \A b \in last.before, a \in last.after :
           b.learningStep \in {0, 1} =>
              /\ a.learningStep = b.learningStep + 1
              /\ a.intervalDays = 0
              /\ a.reps = 0
              /\ a.dueAt = last.now + (IF b.learningStep = 0 THEN 60 ELSE 240)

\* a row that had lapsed has gone from step 1 to step 2 and is due in four
\* hours
AdvancedToLastStep ==
    /\ Answered
    /\ last.q >= 3
    /\ \E b \in last.before, a \in last.after :
          /\ b.learningStep = 1 /\ b.lapses >= 1
          /\ a.learningStep = 2 /\ a.dueAt = last.now + 240

(***************************************************************************)
(* Properties of the rows created and selected (SpecSeq, Spec)             *)
(***************************************************************************)
\* the rows a step puts into the table under a key the table did not hold
NewRows == { row \in store' : ~HasKey(store, row.userId, row.cardId) }

\* the counters and the scheduling fields of a row never answered
FreshFields(row) ==
    /\ row.seen = 0 /\ row.correct = 0 /\ row.wrong = 0
    /\ row.reps = 0 /\ row.lapses = 0
    /\ row.learningStep = 0 /\ row.intervalDays = 0
    /\ row.ease = 250
    /\ row.avgAnswerMs = 0

\* C26 Fresh record: a row built by seed, add-group or add-cards, and a row
\* created by a first answer, has seen = correct = wrong = 0, reps 0,
\* lapses 0, learningStep 0, intervalDays 0, ease 2.5, avgAnswerMs 0 and
\* dueAt the instant at which the request built it; every row that comes
\* into the table is such a row; and a row not yet answered has dueAt <= now
\* at every instant.
FreshRecord ==
    [][ /\ \A p \in DOMAIN procs :
             \A row \in procs'[p].createList \ procs[p].createList :
                FreshFields(row) /\ row.dueAt = clock
        /\ \A row \in NewRows :
              /\ FreshFields(row)
              /\ \/ row.dueAt = clock
                 \/ \E p \in DOMAIN procs : row \in procs[p].createList
        /\ \A row \in store' : row.seen = 0 => row.dueAt <= clock' ]_vars

\* the rows an add-cards built and inserted are still unanswered at a later
\* instant
FreshStillDue ==
    /\ last.op = "add-cards" /\ last.status = 200
    /\ last.inserted # {}
    /\ \A row \in last.inserted :
          /\ row \in store
          /\ row.dueAt >= StartClock
          /\ row.dueAt < clock

\* C27 Empty due set: a selection that finds no row of the user due (in the
\* deck asked for) answers the empty list with status 200; one that finds
\* such rows, all with their card in the catalog, answers a list that is not
\* empty, also when the limit asked for is 0 or negative.
EmptyDueSet ==
    last.op = "due" =>
        /\ last.status = 200
        /\ Matching = {} => last.response = <<>>
        /\ (Matching # {} /\ \A row \in Matching : HasCard(row))
              => Len(last.response) >= 1

\* a selection with a negative limit has answered one row of several due
NegativeLimitAnswered ==
    /\ last.op = "due" /\ last.status = 200
    /\ last.limit < 0
    /\ Cardinality(Matching) >= 2
    /\ Len(last.response) = 1

\* a cut of the matching rows: max(1, limit) of them (all when they are
\* fewer), none of the rows left out having a strictly higher score than a
\* row of the cut
IsTop(T) ==
    /\ Cardinality(T) = Min(Cardinality(Matching), Max(1, last.limit))
    /\ \A in \in T : \A out \in Matching \ T : ~HigherScore(out, in)

\* C28 Orphan exclusion: a selection never answers a row whose card is not
\* in the catalog, and ends with status 200 also when such rows are due; the
\* rows it answers are the rows with a card among the top max(1, limit) by
\* score (they make up such a top with rows whose card is gone), each once,
\* in the order of their scores.
OrphanExclusion ==
    last.op = "due" =>
        /\ last.status = 200
        /\ \A row \in Returned : \E card \in catalog : card.id = row.cardId
        /\ Returned \subseteq Matching
        /\ \E gone \in SUBSET { row \in Matching :
                                  \A card \in catalog : card.id # row.cardId } :
              IsTop(Returned \cup gone)
        /\ Len(last.response) = Cardinality(Returned)
        /\ \A i, j \in 1 .. Len(last.response) :
              i < j => ~HigherScore(last.response[j], last.response[i])

\* the row of a card that is gone was in the cut and was dropped: the
\* response is shorter than the cut although rows with a card were left out
OrphanDroppedFromCut ==
    /\ last.op = "due"
    /\ Len(last.response) >= 1
    /\ Len(last.response) < Min(Cardinality(Matching), Max(1, last.limit))
    /\ \E row \in Matching \ Returned : \E card \in catalog : card.id = row.cardId

\* C29 Unique record per key: in every reachable state the table holds at
\* most one row per (userId, cardId), also when two first answers for a card
\* not yet enrolled, or an enroll call and a first answer for the same card,
\* run at the same time.
UniquePerKey ==
    \A r1 \in store : \A r2 \in store :
       (r1.userId = r2.userId /\ r1.cardId = r2.cardId) => r1 = r2

\* of two first answers for the same card that both found no row, one has
\* created the row and is about to update it, the other's create was rejected
FirstAnswersCollided ==
    /\ last.op = "answer" /\ last.status = 500
    /\ Cardinality(FindReview(last.userId, last.cardId)) = 1
    /\ \E p \in DOMAIN procs :
          /\ procs[p].pc = "answer_update"
          /\ procs[p].userId = last.userId /\ procs[p].cardId = last.cardId
          /\ procs[p].review = FindReview(last.userId, last.cardId)

\* the scores of a and b are equal
EqualScore(a, b) == ~HigherScore(a, b) /\ ~HigherScore(b, a)

\* the place of a row in the order in which the store returned the due rows
FetchedAt(row) ==
    CHOOSE i \in 1 .. Len(last.fetched) : last.fetched[i] = row

\* C30 Stable tie-break: rows of equal score are answered in the order in
\* which the store returned them, and of rows of equal score the cut keeps
\* the ones the store returned first: a row with a card that is left out
\* was returned by the store after every answered row of its score.
StableTieBreak ==
    last.op = "due" =>
        /\ \A i, j \in 1 .. Len(last.response) :
              (i < j /\ EqualScore(last.response[i], last.response[j]))
                 => FetchedAt(last.response[i]) < FetchedAt(last.response[j])
        /\ \A kept \in Returned :
              \A out \in Rows(last.fetched) \ Returned :
                 (EqualScore(kept, out) /\ \E card \in catalog : card.id = out.cardId)
                    => FetchedAt(kept) < FetchedAt(out)

\* two rows of equal score were answered and a third of that score was cut
\* off, the store having returned the rows in an order that is not the order
\* of their card ids
TieCutByFetchOrder ==
    /\ last.op = "due"
    /\ Len(last.response) = 2
    /\ EqualScore(last.response[1], last.response[2])
    /\ \E out \in Rows(last.fetched) \ Returned : EqualScore(out, last.response[2])
    /\ \E i, j \in 1 .. Len(last.fetched) :
          /\ i < j
          /\ last.fetched[i].cardId = "k2" /\ last.fetched[j].cardId = "k1"

(***************************************************************************)
(* Properties of the scheduler over the life of a row (SpecSched)          *)
(***************************************************************************)
\* the delay the scheduler has given a row: the minutes of its learning step
\* or the days of its interval
ScheduledDelay(row) ==
    IF row.learningStep = 0 THEN 10
    ELSE IF row.learningStep = 1 THEN 60
    ELSE IF row.learningStep = 2 THEN 240
    ELSE row.intervalDays * 24 * 60

\* C31 Single clock instant per update: an update sets lastAnsweredAt and
\* lastReviewedAt to the same instant, which is the now dueAt is computed
\* from, so that dueAt - lastReviewedAt is exactly the delay scheduled (10,
\* 60 or 240 minutes, or intervalDays days).
SingleClockInstant ==
    Answered =>
        \A a \in last.after :
           /\ a.lastAnsweredAt = a.lastReviewedAt
           /\ a.lastReviewedAt = last.now
           /\ a.dueAt - a.lastReviewedAt = ScheduledDelay(a)

\* C32 Phase test equivalence: in every state reachable from a freshly
\* created row, the test of the code (reps = 0 or learningStep < 3) and the
\* test learningStep < 3 agree, reps >= 1 holding exactly when learningStep
\* is 3; so every update takes the branch the second test would choose.
PhaseTestEquivalence ==
    /\ \A row \in store :
          /\ (row.reps = 0 \/ row.learningStep < 3) <=> row.learningStep < 3
          /\ row.reps >= 1 <=> row.learningStep = 3
    /\ Answered =>
          \A b \in last.before :
             (b.reps = 0 \/ b.learningStep < 3) <=> b.learningStep < 3

\* a row that had graduated and lapsed, its reps back at 0 with its
\* learningStep, was answered right and took the branch of the learning phase
RelearnedAfterGraduation ==
    /\ Answered
    /\ last.q >= 3
    /\ \E b \in last.before, a \in last.after :
          /\ b.learningStep = 0 /\ b.reps = 0
          /\ b.lapses >= 1 /\ b.correct >= 3
          /\ a.learningStep = 1 /\ a.reps = 0

\* C33 First review after graduation: in every state reachable from a
\* freshly created row a graduated row has reps >= 1, so no review of it
\* leaves reps at 1 (the branch that gives 1 day is not taken), and the first
\* review of quality >= 3 after the graduation sets intervalDays to 6,
\* whether the graduation gave 1 day or 2.
FirstReviewSixDays ==
    /\ \A row \in store : row.learningStep = 3 => row.reps >= 1
    /\ (Answered /\ last.q >= 3) =>
          \A b \in last.before, a \in last.after :
             b.learningStep = 3 =>
                /\ a.reps >= 2
                /\ b.reps = 1 => a.intervalDays = 6

\* a row graduated with 2 days was reviewed for the first time
FirstReviewAfterTwoDays ==
    /\ Answered
    /\ last.q >= 3
    /\ \E b \in last.before, a \in last.after :
          /\ b.learningStep = 3 /\ b.reps = 1 /\ b.intervalDays = 2
          /\ a.reps = 2 /\ a.intervalDays = 6

\* C35 Interval never shrinks without a lapse: in every state reachable from
\* a freshly created row, an update with quality >= 3 of a graduated row
\* gives an intervalDays strictly above the old one (1 or 2 become 6; from
\* then on the row has intervalDays >= 6 and ease >= 1.3 and takes
\* round(intervalDays * ease)); intervalDays goes down only on an update with
\* quality < 3.
IntervalGrows ==
    /\ \A row \in store :
          /\ row.ease >= 130
          /\ row.reps >= 2 => row.intervalDays >= 6
    /\ Answered =>
          \A b \in last.before, a \in last.after :
             /\ (last.q >= 3 /\ b.learningStep = 3) =>
                   /\ a.intervalDays > b.intervalDays
                   /\ b.reps = 1 => (b.intervalDays \in {1, 2} /\ a.intervalDays = 6)
             /\ a.intervalDays < b.intervalDays => last.q < 3

\* a row whose ease the answers of quality 3 had lowered was reviewed for the
\* third time and its interval of 12 days or more grew
GrownAtLoweredEase ==
    /\ Answered
    /\ last.q >= 3
    /\ \E b \in last.before, a \in last.after :
          /\ b.learningStep = 3 /\ b.reps = 3
          /\ b.ease < 200 /\ b.intervalDays >= 12
          /\ a.intervalDays > b.intervalDays

(***************************************************************************)
(* Properties of answers and selections over time (SpecSeq)                *)
(***************************************************************************)
\* C34 Answered card leaves the due set: an update sets dueAt at least 10
\* minutes after its now; a selection answers only rows whose dueAt the clock
\* has reached, so it does not answer a row that was answered at the instant
\* of the selection; the row is answered again by a selection made once the
\* clock has reached its dueAt, nothing else having happened in between.
AnsweredLeavesDueSet ==
    /\ Answered => \A a \in last.after : a.dueAt >= last.now + 10
    /\ last.op = "due" =>
          /\ \A row \in Returned : row.dueAt <= last.now
          /\ \A row \in store :
                (row.seen >= 1 /\ row.lastReviewedAt = last.now)
                   => row \notin Returned

\* a row answered at an earlier instant, put off by that answer, is answered
\* by a selection made after the clock has passed its dueAt
AnsweredRowDueAgain ==
    /\ last.op = "due"
    /\ \E row \in Returned :
          /\ row.seen >= 1
          /\ row.lastReviewedAt >= StartClock
          /\ row.lastReviewedAt < last.now
          /\ row.dueAt >= row.lastReviewedAt + 10
          /\ row.dueAt <= last.now

\* a row no answer has touched
NeverAnswered(row) ==
    row.seen = 0 /\ row.avgAnswerMs = 0 /\ row.lastCorrect = TRUE

\* the due rows that stand before row in the sorted list: those of a score
\* above 0 and those of score 0 the store returned before it
AheadOfUnseen(row) ==
    { r \in Matching :
        \/ ScoreNum(r) > 0
        \/ ScoreNum(r) = 0 /\ FetchedAt(r) < FetchedAt(row) }

\* C37 Priority floor for unseen cards: the score of every row is >= 0 and
\* the score of a row never answered (seen 0, avgAnswerMs 0, lastCorrect
\* true) is 0; when there are more due rows than max(1, limit), a row never
\* answered is in the response only if fewer than max(1, limit) due rows
\* have a score above 0 or have score 0 and were returned by the store
\* before it.
PriorityFloor ==
    /\ \A row \in store :
          /\ ScoreNum(row) >= 0
          /\ NeverAnswered(row) => ScoreNum(row) = 0
    /\ (last.op = "due" /\ Cardinality(Matching) > Max(1, last.limit)) =>
          \A row \in Returned :
             NeverAnswered(row) =>
                Cardinality(AheadOfUnseen(row)) < Max(1, last.limit)

\* with more due rows than the limit, a row never answered was answered
\* behind a row of a score above 0, and another row never answered, which the
\* store returned later, was cut off
UnseenBehindScored ==
    /\ last.op = "due"
    /\ Cardinality(Matching) > Max(1, last.limit)
    /\ \E row \in Returned, scored \in Returned, out \in Matching \ Returned :
          /\ NeverAnswered(row) /\ NeverAnswered(out)
          /\ ScoreNum(scored) > 0
          /\ FetchedAt(row) < FetchedAt(out)

(***************************************************************************)
(* Properties of the learning cursor (SpecCursor)                          *)
(***************************************************************************)
\* the add-cards request of user u that writes the cursor in this step
CursorWriters(u) ==
    { p \in DOMAIN procs :
        /\ procs[p].pc = "cards_upsert" /\ procs[p].userId = u
        /\ procs'[p].pc = "idle" }

\* the reset request of user u that writes the cursor in this step
CursorResetters(u) ==
    { p \in DOMAIN procs :
        /\ procs[p].pc = "reset_upsert" /\ procs[p].userId = u
        /\ procs'[p].pc = "idle" }

\* C36 Learning cursor monotonicity: when an add-cards request writes the
\* cursor of its user, the new nextOrder is the greater of the nextOrder
\* before the write (0 when there was none) and 1 + the greatest order
\* among the catalog cards it named; in every step of every interleaving of
\* add-cards, seed, add-group, answer and due requests the nextOrder of a
\* user does not go down, and a step that lowers it is the write of a reset
\* and leaves 0.
CursorMonotone ==
    [][ \A u \in DOMAIN progress :
          /\ \A p \in CursorWriters(u) :
                progress'[u] = Max(Max(progress[u], 0),
                                   MaxOrder(procs[p].cards) + 1)
          /\ progress'[u] < progress[u] =>
                /\ CursorResetters(u) # {}
                /\ progress'[u] = 0 ]_vars

====
